---- MODULE Spec2Model ----
(***************************************************************************)
(* A model of betamax's NewCassette (src/betamax/new_cassette.py): the     *)
(* interaction sequence, the record mode, the match options, the cached    *)
(* deserialized store and the load / match / sanitize / save lifecycle     *)
(* around the serializer proxy.                                            *)
(*                                                                         *)
(* Text is a sequence of one-character strings.  An interaction's json is  *)
(*   [request |-> [method, uri], response |-> [body], recorded_at]         *)
(* and an Interaction object is [json |-> ..., recorded_at |-> ...].       *)
(***************************************************************************)
EXTENDS Integers, Sequences, FiniteSets, TLC

VARIABLES
    phase,            \* "new": no instance yet; "ready": __init__ returned; "failed": __init__ raised
    kwargs,           \* the placeholders option every construction of this test scope passes
    store,            \* what the serializer proxy's backing store holds
    serialized,       \* self.serialized
    record_mode,      \* self.record_mode
    placeholders,     \* self.placeholders
    interactions,     \* self.interactions
    match_options,    \* self.match_options
    deserialized,     \* how often this instance called serializer.deserialize()
    op,               \* the last operation called
    arg,              \* the arguments it was called with and what it handed on
    ret               \* what it returned or raised

vars == <<phase, kwargs, store, serialized, record_mode, placeholders,
          interactions, match_options, deserialized, op, arg, ret>>

----------------------------------------------------------------------------
(* Bounds *)

MaxInteractions == 2

DeserializeCap == 2

----------------------------------------------------------------------------
(* Python values *)

None == [type |-> "None", keys |-> {}, http_interactions |-> <<>>]

EmptyDict == [type |-> "dict", keys |-> {}, http_interactions |-> <<>>]

CassetteDict(js) ==
    [type |-> "dict", keys |-> {"http_interactions", "recorded_with"},
     http_interactions |-> js]

\* Python truth value of None or of a dict
truthy(d) == d.type = "dict" /\ d.keys # {}

\* d.get('http_interactions', default)
dict_get(d, default) ==
    IF "http_interactions" \in d.keys THEN d.http_interactions ELSE default

Min(a, b) == IF a < b THEN a ELSE b

\* what an operation returned or raised
RetNone == [kind |-> "None", value |-> "None"]
RetRaise(e) == [kind |-> "raise", value |-> e]
RetBool(b) == [kind |-> "bool", value |-> IF b THEN "True" ELSE "False"]
RetInteraction(i) == [kind |-> "Interaction", value |-> i]
RetDate(at) == [kind |-> "datetime", value |-> at]
RetNow == [kind |-> "datetime", value |-> "now"]
RetRecord(fields) == [kind |-> "dict", value |-> fields]

\* the arguments of a call: a request (find_match), or the serialization_format
\* and match_requests_on of __init__, with the SerializerProxy call __init__ made
\* ("unbuilt", or the recording flag it handed over)
NoRequest == [method |-> "-", uri |-> <<>>]

NotGiven == [given |-> FALSE, names |-> {}]

NoArg == [request |-> NoRequest, match_requests_on |-> NotGiven,
          format |-> "-", proxy |-> "-"]

ArgRequest(r) == [NoArg EXCEPT !.request = r]

ArgKwargs(format, m, proxy) ==
    [request |-> NoRequest, match_requests_on |-> m, format |-> format, proxy |-> proxy]

\* the recording flag as SerializerProxy receives it
ProxyFlag(b) == IF b THEN "recording" ELSE "replaying"

----------------------------------------------------------------------------
(* str.replace: every non-overlapping occurrence of old, leftmost first *)

RECURSIVE str_join(_, _)
str_join(t, new) ==
    IF t = <<>> THEN new ELSE new \o <<Head(t)>> \o str_join(Tail(t), new)

RECURSIVE str_replace(_, _, _)
str_replace(t, old, new) ==
    IF old = <<>> THEN str_join(t, new)
    ELSE IF Len(t) < Len(old) THEN t
    ELSE IF SubSeq(t, 1, Len(old)) = old
         THEN new \o str_replace(SubSeq(t, Len(old) + 1, Len(t)), old, new)
         ELSE <<Head(t)>> \o str_replace(Tail(t), old, new)

\* whether text t holds an occurrence of the non-empty text s
contains(t, s) ==
    \E k \in 1..Len(t) : k + Len(s) - 1 <= Len(t) /\ SubSeq(t, k, k + Len(s) - 1) = s

----------------------------------------------------------------------------
(* Interaction (betamax.cassette) *)

Json(method, uri, body, at) ==
    [request |-> [method |-> method, uri |-> uri],
     response |-> [body |-> body],
     recorded_at |-> at]

\* Interaction(json)
Interaction(j) == [json |-> j, recorded_at |-> j.recorded_at]

\* Interaction.replace(text_to_replace, placeholder): in every text field
interaction_replace(i, old, new) ==
    [i EXCEPT !.json.request.uri = str_replace(@, old, new),
              !.json.response.body = str_replace(@, old, new)]

\* Interaction.replace_all(replacements, key_order): one rule after another
RECURSIVE replace_all(_, _, _)
replace_all(i, replacements, key_order) ==
    IF replacements = <<>> THEN i
    ELSE replace_all(
            interaction_replace(i, Head(replacements)[key_order[1]],
                                   Head(replacements)[key_order[2]]),
            Tail(replacements), key_order)

\* the default key order of replace_all: literal -> tag
DefaultKeyOrder == <<"replace", "placeholder">>

----------------------------------------------------------------------------
(* matcher_registry (betamax.matchers) and serializer_registry *)

MatcherNames == {"method", "uri"}

\* matcher_registry[name].match(request, recorded_request)
matcher_match(name, request, recorded) ==
    IF name = "method" THEN request.method = recorded.method
    ELSE request.uri = recorded.uri

\* Interaction.match(matchers): all(m(self.json['request']) for m in matchers)
interaction_match(i, opts, request) ==
    \A o \in opts : matcher_match(o, request, i.json.request)

SerializerNames == {"json"}

\* the serialization_format values a construction is tried with
Formats == SerializerNames \cup {"yaml"}

----------------------------------------------------------------------------
(* The inputs *)

RecordModes == {"none", "once", "all", "new_episodes"}

Omitted == "omitted"

Rule(literal, tag) == [replace |-> literal, placeholder |-> tag]

\* one rule, its tag apart from its literal
CleanRules == << Rule(<<"s">>, <<"T">>) >>

\* two rules, the tag of the second being the literal of the first
OverlappingRules == << Rule(<<"s">>, <<"T">>), Rule(<<"k">>, <<"s">>) >>

PlaceholderChoices == { <<>>, CleanRules, OverlappingRules }

\* the match_requests_on option: left out, or given as a list of matcher names
MatchRequestsOnChoices ==
    { NotGiven, [given |-> TRUE, names |-> {"method", "uri"}] }

\* a cassette file as an earlier run left it (tags in place of literals)
StoredA == Json("GET", <<"u">>, <<"T">>, 1)
StoredC == Json("POST", <<"T">>, <<"o">>, 2)

StoreChoices ==
    { EmptyDict,
      CassetteDict(<<>>),
      CassetteDict(<<StoredA>>),
      CassetteDict(<<StoredC, StoredA>>) }

\* what the capturing collaborator appends
CaptureChoices ==
    { Json("GET", <<"u">>, <<"s">>, 3) }

Requests ==
    { [method |-> "GET", uri |-> <<"u">>],
      [method |-> "POST", uri |-> <<"u">>],
      [method |-> "POST", uri |-> <<"s">>] }

MatchOptionChoices ==
    { {}, {"method", "uri"}, {"method", "digest"} }

----------------------------------------------------------------------------
(* NewCassette *)

\* is_empty
is_empty(ser) == ~ truthy(ser)

\* an is_recording whose default is the 'once' rule
is_recording_once_default(mode, ser) ==
    IF mode = "none" THEN FALSE ELSE is_empty(ser)

\* is_recording: values.get(self.record_mode, True)
is_recording(mode, ser) ==
    IF mode = "none" THEN FALSE
    ELSE IF mode = "once" THEN is_empty(ser)
    ELSE TRUE

\* a recording flag computed once the store is loaded
proxy_recording_after_load(mode, st) == is_recording(mode, st)

\* __init__: the flag handed to SerializerProxy, self.is_recording() while
\* self.serialized is still None
proxy_recording(mode, st) == is_recording(mode, None)

\* the attributes __init__ assigns
Attributes ==
    { "cassette_name", "serialized", "record_mode", "serializer", "placeholders",
      "interactions", "match_options" }

\* serialize_interaction: reads self.serialize_format to build the record
serialize_interaction_return ==
    IF "serialize_format" \in Attributes
    THEN RetRecord({"request", "response", "recorded_at"})
    ELSE RetRaise("AttributeError")

\* sorted(is, key=recorded_at): a stable insertion sort
RECURSIVE sorted(_)
sorted(is) ==
    IF is = <<>> THEN <<>>
    ELSE LET rest == sorted(Tail(is))
             before == SelectSeq(rest, LAMBDA i : i.recorded_at < Head(is).recorded_at)
             after == SelectSeq(rest, LAMBDA i : ~ (i.recorded_at < Head(is).recorded_at))
         IN  before \o <<Head(is)>> \o after

\* an earliest_recorded_date that takes the first interaction unsorted
earliest_recorded_date_first(is) ==
    IF is # <<>> THEN RetDate(is[1].recorded_at) ELSE RetNow

\* earliest_recorded_date
earliest_recorded_date(is) ==
    IF is # <<>> THEN RetDate(sorted(is)[1].recorded_at) ELSE RetNow

\* a load that deserializes again whenever the cached form is falsy
load_cached_falsy(ser, st, n) ==
    IF ~ truthy(ser)
    THEN [serialized |-> st, deserialized |-> Min(n + 1, DeserializeCap)]
    ELSE [serialized |-> ser, deserialized |-> n]

\* load_interactions, the cached form: serializer.deserialize() only while
\* self.serialized is None; n counts the deserialize calls of the instance
load_cached(ser, st, n) ==
    IF ser = None
    THEN [serialized |-> st, deserialized |-> Min(n + 1, DeserializeCap)]
    ELSE [serialized |-> ser, deserialized |-> n]

\* a load that leaves the tags in place
load_hydrate_skipped(i, phs) == i

\* load_interactions, the sequence: wrap each stored json, then tag -> literal
load_hydrate(i, phs) == replace_all(i, phs, <<"placeholder", "replace">>)

load_sequence(ser, phs) ==
    LET js == dict_get(ser, <<>>)
    IN  [k \in 1..Len(js) |-> load_hydrate(Interaction(js[k]), phs)]

\* sanitize_interactions: literal -> tag on every interaction
sanitize_one(i, phs) == replace_all(i, phs, DefaultKeyOrder)

sanitize_sequence(is, phs) == [k \in 1..Len(is) |-> sanitize_one(is[k], phs)]

\* a save that serializes without sanitizing first
save_sanitize_skipped(is, phs) == is

\* _save_cassette: its first statement, self.sanitize_interactions()
save_sanitize(is, phs) == sanitize_sequence(is, phs)

\* a cassette_data that lists the interactions newest first
cassette_data_reversed(is) ==
    CassetteDict([k \in 1..Len(is) |-> is[Len(is) + 1 - k].json])

\* _save_cassette: the cassette_data handed to serializer.serialize
cassette_data(is) == CassetteDict([k \in 1..Len(is) |-> is[k].json])

\* a scan that keeps the last matching interaction instead of the first
RECURSIVE scan_last(_, _, _, _)
scan_last(is, opts, request, k) ==
    IF k > Len(is) THEN 0
    ELSE LET later == scan_last(is, opts, request, k + 1)
         IN  IF later # 0 THEN later
             ELSE IF interaction_match(is[k], opts, request) THEN k ELSE 0

\* find_match: the scan of self.interactions; 0 when nothing matches
RECURSIVE scan(_, _, _, _)
scan(is, opts, request, k) ==
    IF k > Len(is) THEN 0
    ELSE IF interaction_match(is[k], opts, request) THEN k
    ELSE scan(is, opts, request, k + 1)

remove_at(is, k) == [j \in 1..(Len(is) - 1) |-> IF j < k THEN is[j] ELSE is[j + 1]]

\* a find_match that returns the interaction it evicts
find_match_return_evicted(mode, is, opts, request) ==
    IF ~ (opts \subseteq MatcherNames) THEN RetRaise("KeyError")
    ELSE LET k == scan(is, opts, request, 1)
         IN  IF k = 0 THEN RetNone ELSE RetInteraction(is[k])

\* a find_match that finds nothing when no matcher is configured
find_match_return_needs_matcher(mode, is, opts, request) ==
    IF ~ (opts \subseteq MatcherNames) THEN RetRaise("KeyError")
    ELSE LET k == IF opts = {} THEN 0 ELSE scan(is, opts, request, 1)
         IN  IF k = 0 THEN RetNone
             ELSE IF mode = "all" THEN RetNone
             ELSE RetInteraction(is[k])

\* find_match: what it returns
find_match_return(mode, is, opts, request) ==
    IF ~ (opts \subseteq MatcherNames) THEN RetRaise("KeyError")
    ELSE LET k == scan(is, opts, request, 1)
         IN  IF k = 0 THEN RetNone
             ELSE IF mode = "all" THEN RetNone
             ELSE RetInteraction(is[k])

\* a find_match that evicts every matching interaction
find_match_interactions_all(mode, is, opts, request) ==
    IF ~ (opts \subseteq MatcherNames) \/ mode # "all" THEN is
    ELSE SelectSeq(is, LAMBDA i : ~ interaction_match(i, opts, request))

\* a find_match that evicts the matched interaction under every record mode
find_match_interactions_every_mode(mode, is, opts, request) ==
    IF ~ (opts \subseteq MatcherNames) THEN is
    ELSE LET k == scan(is, opts, request, 1)
         IN  IF k # 0 THEN remove_at(is, k) ELSE is

\* find_match: what it leaves in self.interactions
find_match_interactions(mode, is, opts, request) ==
    IF ~ (opts \subseteq MatcherNames) THEN is
    ELSE LET k == scan(is, opts, request, 1)
         IN  IF k # 0 /\ mode = "all" THEN remove_at(is, k) ELSE is

----------------------------------------------------------------------------
(* Operations *)

Init ==
    /\ phase = "new"
    /\ kwargs \in [placeholders : PlaceholderChoices]
    /\ store \in StoreChoices
    /\ kwargs.placeholders = OverlappingRules => store = EmptyDict
    /\ serialized = None
    /\ record_mode = "once"
    /\ placeholders = <<>>
    /\ interactions = <<>>
    /\ match_options = {}
    /\ deserialized = 0
    /\ op = "-"
    /\ arg = NoArg
    /\ ret = RetNone

\* a test scope builds its cassette when none is in use: at the start, after a
\* failed construction, or once the previous one was persisted by eject or clear
scope_open == phase # "ready" \/ op \in {"eject", "clear"}

\* an __init__ that finds the format unregistered only after it built the
\* proxy and deserialized the store
construct_fails_late(format, mode, match_requests_on) ==
    /\ scope_open
    /\ format \notin SerializerNames
    /\ phase' = "failed"
    /\ serialized' = None
    /\ record_mode' = mode
    /\ placeholders' = <<>>
    /\ interactions' = <<>>
    /\ match_options' = {}
    /\ deserialized' = 1
    /\ op' = "__init__"
    /\ arg' = ArgKwargs(format, match_requests_on,
                        ProxyFlag(proxy_recording(mode, store)))
    /\ ret' = RetRaise("ValueError")
    /\ UNCHANGED <<kwargs, store>>

\* __init__ with an unregistered serialization_format: raises before anything is built
construct_fails(format, mode, match_requests_on) ==
    /\ scope_open
    /\ format \notin SerializerNames
    /\ phase' = "failed"
    /\ serialized' = None
    /\ record_mode' = mode
    /\ placeholders' = <<>>
    /\ interactions' = <<>>
    /\ match_options' = {}
    /\ deserialized' = 0
    /\ op' = "__init__"
    /\ arg' = ArgKwargs(format, match_requests_on, "unbuilt")
    /\ ret' = RetRaise("ValueError")
    /\ UNCHANGED <<kwargs, store>>

\* __init__ with a registered serialization_format, load_interactions included
construct(format, mode, match_requests_on) ==
    /\ scope_open
    /\ format \in SerializerNames
    /\ phase' = "ready"
    /\ record_mode' = mode
    /\ placeholders' = kwargs.placeholders
    /\ match_options' = {}
    /\ serialized' = load_cached(None, store, 0).serialized
    /\ deserialized' = load_cached(None, store, 0).deserialized
    /\ interactions' = load_sequence(load_cached(None, store, 0).serialized,
                                     kwargs.placeholders)
    /\ op' = "__init__"
    /\ arg' = ArgKwargs(format, match_requests_on,
                        ProxyFlag(proxy_recording(mode, store)))
    /\ ret' = RetNone
    /\ UNCHANGED <<kwargs, store>>

\* cassette.record_mode = mode, by the owner of the cassette
set_record_mode(mode) ==
    /\ phase = "ready"
    /\ record_mode' = mode
    /\ op' = "setattr"
    /\ arg' = NoArg
    /\ ret' = RetNone
    /\ UNCHANGED <<phase, kwargs, store, serialized, placeholders, interactions,
                   match_options, deserialized>>

\* cassette.match_options = opts, by the owner of the cassette
set_match_options(opts) ==
    /\ phase = "ready"
    /\ match_options' = opts
    /\ op' = "setattr"
    /\ arg' = NoArg
    /\ ret' = RetNone
    /\ UNCHANGED <<phase, kwargs, store, serialized, record_mode, placeholders,
                   interactions, deserialized>>

\* the capturing collaborator appends a fresh interaction while recording
capture(j) ==
    /\ phase = "ready"
    /\ is_recording(record_mode, serialized)
    /\ Len(interactions) < MaxInteractions
    /\ interactions' = Append(interactions, Interaction(j))
    /\ op' = "capture"
    /\ arg' = NoArg
    /\ ret' = RetNone
    /\ UNCHANGED <<phase, kwargs, store, serialized, record_mode, placeholders,
                   match_options, deserialized>>

find_match(request) ==
    /\ phase = "ready"
    /\ interactions' = find_match_interactions(record_mode, interactions,
                                               match_options, request)
    /\ ret' = find_match_return(record_mode, interactions, match_options, request)
    /\ op' = "find_match"
    /\ arg' = ArgRequest(request)
    /\ UNCHANGED <<phase, kwargs, store, serialized, record_mode, placeholders,
                   match_options, deserialized>>

call_is_recording ==
    /\ phase = "ready"
    /\ ret' = RetBool(is_recording(record_mode, serialized))
    /\ op' = "is_recording"
    /\ arg' = NoArg
    /\ UNCHANGED <<phase, kwargs, store, serialized, record_mode, placeholders,
                   interactions, match_options, deserialized>>

call_earliest_recorded_date ==
    /\ phase = "ready"
    /\ ret' = earliest_recorded_date(interactions)
    /\ op' = "earliest_recorded_date"
    /\ arg' = NoArg
    /\ UNCHANGED <<phase, kwargs, store, serialized, record_mode, placeholders,
                   interactions, match_options, deserialized>>

serialize_interaction ==
    /\ phase = "ready"
    /\ ret' = serialize_interaction_return
    /\ op' = "serialize_interaction"
    /\ arg' = NoArg
    /\ UNCHANGED <<phase, kwargs, store, serialized, record_mode, placeholders,
                   interactions, match_options, deserialized>>

load_interactions ==
    /\ phase = "ready"
    /\ serialized' = load_cached(serialized, store, deserialized).serialized
    /\ deserialized' = load_cached(serialized, store, deserialized).deserialized
    /\ interactions' = load_sequence(load_cached(serialized, store, deserialized).serialized,
                                     placeholders)
    /\ op' = "load_interactions"
    /\ arg' = NoArg
    /\ ret' = RetNone
    /\ UNCHANGED <<phase, kwargs, store, record_mode, placeholders, match_options>>

sanitize_interactions ==
    /\ phase = "ready"
    /\ interactions' = sanitize_sequence(interactions, placeholders)
    /\ op' = "sanitize_interactions"
    /\ arg' = NoArg
    /\ ret' = RetNone
    /\ UNCHANGED <<phase, kwargs, store, serialized, record_mode, placeholders,
                   match_options, deserialized>>

\* _save_cassette on the sequence `held`: sanitize in place, then serialize
save_cassette(held) ==
    /\ interactions' = save_sanitize(held, placeholders)
    /\ store' = cassette_data(save_sanitize(held, placeholders))

\* a clear that also forgets the cached deserialized store
clear_forgets ==
    /\ phase = "ready"
    /\ save_cassette(<<>>)
    /\ serialized' = EmptyDict
    /\ op' = "clear"
    /\ arg' = NoArg
    /\ ret' = RetNone
    /\ UNCHANGED <<phase, kwargs, record_mode, placeholders, match_options,
                   deserialized>>

clear ==
    /\ phase = "ready"
    /\ save_cassette(<<>>)
    /\ op' = "clear"
    /\ arg' = NoArg
    /\ ret' = RetNone
    /\ UNCHANGED <<phase, kwargs, serialized, record_mode, placeholders,
                   match_options, deserialized>>

eject ==
    /\ phase = "ready"
    /\ save_cassette(interactions)
    /\ op' = "eject"
    /\ arg' = NoArg
    /\ ret' = RetNone
    /\ UNCHANGED <<phase, kwargs, serialized, record_mode, placeholders,
                   match_options, deserialized>>

KwRecordMode(kw) == IF kw = Omitted THEN "once" ELSE kw

Next ==
    \/ \E format \in Formats, kw \in RecordModes \cup {Omitted},
          m \in MatchRequestsOnChoices :
          construct_fails(format, KwRecordMode(kw), m)
    \/ \E format \in Formats, kw \in RecordModes \cup {Omitted},
          m \in MatchRequestsOnChoices :
          construct(format, KwRecordMode(kw), m)
    \/ \E mode \in RecordModes : set_record_mode(mode)
    \/ \E opts \in MatchOptionChoices : set_match_options(opts)
    \/ \E j \in CaptureChoices : capture(j)
    \/ \E request \in Requests : find_match(request)
    \/ call_is_recording
    \/ call_earliest_recorded_date
    \/ serialize_interaction
    \/ load_interactions
    \/ sanitize_interactions
    \/ clear
    \/ eject

Spec == Init /\ [][Next]_vars

----------------------------------------------------------------------------
(* Properties *)

\* the indices of the interactions of `is` every matcher of `opts` accepts for r
Matching(is, opts, r) ==
    { k \in 1..Len(is) :
        \A o \in opts : matcher_match(o, r, is[k].json.request) }

\* k is the lowest index of the set M
Lowest(k, M) == k \in M /\ \A j \in M : k <= j

\* `after` is `before` without its k-th element, the rest in order
Without(before, k, after) ==
    /\ Len(after) = Len(before) - 1
    /\ \A j \in 1..Len(after) :
          after[j] = IF j < k THEN before[j] ELSE before[j + 1]

\* C1: outside 'all' mode, with registered matchers, find_match returns the
\* matching interaction of lowest index, and None exactly when none matches.
C1_FirstMatchWins ==
    (op = "find_match" /\ record_mode # "all" /\ match_options \subseteq MatcherNames)
    => LET M == Matching(interactions, match_options, arg.request)
       IN  /\ (ret = RetNone) <=> (M = {})
           /\ M # {} => \E k \in M : Lowest(k, M) /\ ret = RetInteraction(interactions[k])

\* two different interactions match under {method, uri}; the first was returned
C1_Witness ==
    /\ op = "find_match"
    /\ record_mode = "once"
    /\ match_options = {"method", "uri"}
    /\ Len(interactions) = 2
    /\ Matching(interactions, match_options, arg.request) = {1, 2}
    /\ interactions[1] # interactions[2]
    /\ ret = RetInteraction(interactions[1])

\* C2: the first find_match of a fresh cassette matches on the constructor's
\* match_requests_on option, [method, uri] when the option is left out.
C2_ConstructorMatchOptions ==
    [][(op = "__init__" /\ phase = "ready" /\ op' = "find_match" /\ record_mode # "all")
       => LET opts == IF arg.match_requests_on.given
                      THEN arg.match_requests_on.names
                      ELSE {"method", "uri"}
              M == Matching(interactions, opts, arg'.request)
          IN  /\ (ret' = RetNone) <=> (M = {})
              /\ M # {} => \E k \in M : Lowest(k, M) /\ ret' = RetInteraction(interactions[k])
      ]_vars

\* C3, as claimed: in 'all' mode a find_match that finds a match removes the
\* matched interaction and returns that interaction.
C3_AllModeReturnsEvicted ==
    [][(op' = "find_match" /\ record_mode = "all" /\ match_options \subseteq MatcherNames
        /\ Matching(interactions, match_options, arg'.request) # {})
       => \E k \in Matching(interactions, match_options, arg'.request) :
             /\ Without(interactions, k, interactions')
             /\ ret' = RetInteraction(interactions[k])
      ]_vars

\* C3, amended: in 'all' mode a find_match that finds a match removes the
\* matched interaction and returns None.
C3_AllModeEvictsAndReturnsNone ==
    [][(op' = "find_match" /\ record_mode = "all" /\ match_options \subseteq MatcherNames
        /\ Matching(interactions, match_options, arg'.request) # {})
       => /\ \E k \in Matching(interactions, match_options, arg'.request) :
                Without(interactions, k, interactions')
          /\ ret' = RetNone
      ]_vars

\* of the two loaded interactions the second was evicted, and None returned
C3_Witness ==
    /\ op = "find_match"
    /\ record_mode = "all"
    /\ ret = RetNone
    /\ Len(dict_get(serialized, <<>>)) = 2
    /\ interactions = << load_hydrate(Interaction(dict_get(serialized, <<>>)[1]),
                                      placeholders) >>

\* C4: in 'all' mode a find_match that finds a match removes the matching
\* interaction of lowest index and nothing else; when one interaction matched,
\* none matches afterwards; when none matches, nothing is removed and None is
\* returned.
C4_EvictsExactlyFirstMatch ==
    [][(op' = "find_match" /\ record_mode = "all" /\ match_options \subseteq MatcherNames)
       => LET M == Matching(interactions, match_options, arg'.request)
          IN  /\ M = {} => interactions' = interactions /\ ret' = RetNone
              /\ M # {} => \E k \in M : Lowest(k, M) /\ Without(interactions, k, interactions')
              /\ Cardinality(M) = 1
                    => Matching(interactions', match_options, arg'.request) = {}
      ]_vars

\* of the two loaded interactions the first was evicted and the second kept
C4_Witness ==
    /\ op = "find_match"
    /\ record_mode = "all"
    /\ Len(dict_get(serialized, <<>>)) = 2
    /\ interactions = << load_hydrate(Interaction(dict_get(serialized, <<>>)[2]),
                                      placeholders) >>

\* C5: is_recording() is False in 'none' mode, is_empty() in 'once' mode and
\* True in every other mode, computed from the record mode of the moment.
C5_IsRecordingTable ==
    op = "is_recording"
    => ret = RetBool(CASE record_mode = "none" -> FALSE
                       [] record_mode = "once" -> ~ truthy(serialized)
                       [] OTHER -> TRUE)

\* a cassette loaded from a store with interactions reports recording in a
\* mode other than 'none' and 'once'
C5_Witness ==
    /\ op = "is_recording"
    /\ record_mode = "new_episodes"
    /\ Len(dict_get(serialized, <<>>)) > 0
    /\ ret = RetBool(TRUE)

\* C6, as claimed: in 'once' mode is_recording() is True exactly when the
\* deserialized store held no interaction.
C6_RecordingIffStoreHadNone ==
    (op = "is_recording" /\ record_mode = "once")
    => ((ret = RetBool(TRUE)) <=> (Len(dict_get(serialized, <<>>)) = 0))

\* C7: on one instance no operation after construction changes is_empty(),
\* nor is_recording() of 'once' mode.
C7_EmptinessFixedAtLoad ==
    [][(phase = "ready" /\ phase' = "ready" /\ op' # "__init__")
       => /\ is_empty(serialized') = is_empty(serialized)
          /\ is_recording("once", serialized') = is_recording("once", serialized)
      ]_vars

\* loaded from a store with interactions, emptied and persisted empty since,
\* the cassette still reports not recording in 'once' mode
C7_Witness ==
    /\ op = "is_recording"
    /\ record_mode = "once"
    /\ ret = RetBool(FALSE)
    /\ Len(dict_get(serialized, <<>>)) > 0
    /\ interactions = <<>>
    /\ store = CassetteDict(<<>>)

\* the characters of a text
Chars(t) == { t[k] : k \in 1..Len(t) }

\* the texts of a list of interaction jsons
TextsOf(js) ==
    { js[k].request.uri : k \in 1..Len(js) } \cup { js[k].response.body : k \in 1..Len(js) }

\* some text of the list of jsons holds the literal of some rule
HoldsLiteral(js, phs) ==
    \E t \in TextsOf(js), a \in 1..Len(phs) : contains(t, phs[a].replace)

\* no literal and no tag is empty
NonEmptyRules(phs) ==
    \A a \in 1..Len(phs) : phs[a].replace # <<>> /\ phs[a].placeholder # <<>>

\* no tag shares a character with any literal
TagsApartFromLiterals(phs) ==
    \A a, b \in 1..Len(phs) : Chars(phs[a].placeholder) \cap Chars(phs[b].replace) = {}

\* each tag is made of characters found in no text of `is` and in no other tag
TagsFresh(is, phs) ==
    \A a \in 1..Len(phs) :
        /\ \A t \in TextsOf([k \in 1..Len(is) |-> is[k].json]) :
              Chars(phs[a].placeholder) \cap Chars(t) = {}
        /\ \A b \in 1..Len(phs) :
              b # a => Chars(phs[a].placeholder) \cap Chars(phs[b].placeholder) = {}

\* what _save_cassette works on: everything held (eject) or nothing (clear)
Held == IF op' = "eject" THEN interactions ELSE <<>>

\* C8, as claimed: the data handed to the serializer holds no literal of a
\* configured placeholder.
C8_StoreNeverHoldsLiteral ==
    op \in {"eject", "clear"} => ~ HoldsLiteral(store.http_interactions, placeholders)

\* C8, amended: serialize is handed exactly the held interactions after
\* literal -> tag substitution, and that data holds no literal when the rules
\* are non-empty and no tag shares a character with a literal.
C8_PersistsSanitized ==
    [][op' \in {"eject", "clear"}
       => /\ store'.type = "dict"
          /\ Len(store'.http_interactions) = Len(Held)
          /\ \A k \in 1..Len(Held) :
                store'.http_interactions[k]
                    = replace_all(Held[k], placeholders, <<"replace", "placeholder">>).json
          /\ (NonEmptyRules(placeholders) /\ TagsApartFromLiterals(placeholders))
                => ~ HoldsLiteral(store'.http_interactions, placeholders)
      ]_vars

\* a captured body "s" was persisted by eject as the tag "T"
C8_Witness ==
    /\ op = "eject"
    /\ placeholders = CleanRules
    /\ \E k \in 1..Len(store.http_interactions) :
          /\ store.http_interactions[k].recorded_at = 3
          /\ store.http_interactions[k].response.body = <<"T">>

\* what a fresh instance with placeholders phs loads from the store st
FreshLoad(st, phs) == load_sequence(load_cached(None, st, 0).serialized, phs)

\* C9, as claimed, for any placeholders: an interaction ejected right after
\* its capture is loaded by a fresh instance as it was captured, and what was
\* loaded and ejected at once is loaded by a fresh instance as it was held.
C9_RoundTrip ==
    [][/\ (op = "capture" /\ op' = "eject")
            => FreshLoad(store', placeholders)[Len(interactions)]
                   = interactions[Len(interactions)]
       /\ (op = "__init__" /\ op' = "eject")
            => FreshLoad(store', placeholders) = interactions
      ]_vars

\* C9, amended: what a fresh instance loads from the store eject persisted
\* equals the interactions held before the eject, provided the rules are
\* non-empty and each tag is made of characters found in no held text, in no
\* literal and in no other tag.
C9_RoundTripFreshTags ==
    [][(op' = "eject" /\ NonEmptyRules(placeholders)
        /\ TagsApartFromLiterals(placeholders) /\ TagsFresh(interactions, placeholders))
       => FreshLoad(store', placeholders) = interactions
      ]_vars

\* a fresh instance holds the literal "s" of a capture the store keeps as "T"
C9_Witness ==
    /\ op = "__init__"
    /\ phase = "ready"
    /\ placeholders = CleanRules
    /\ \E k \in 1..Len(interactions) :
          /\ interactions[k].recorded_at = 3
          /\ interactions[k].json.response.body = <<"s">>
          /\ store.http_interactions[k].response.body = <<"T">>

\* C10: an instance calls deserialize once, an empty result included, and a
\* load_interactions right after a load leaves the sequence as it was.
C10_LoadOnceAndIdempotent ==
    [][phase' = "ready"
       => /\ deserialized' = 1
          /\ (op' = "load_interactions" /\ op \in {"__init__", "load_interactions"})
                => interactions' = interactions
      ]_vars

\* load_interactions ran again on a cassette whose store deserialized empty
C10_Witness ==
    /\ op = "load_interactions"
    /\ serialized = EmptyDict
    /\ deserialized = 1

\* some text of the in-memory interactions holds the tag of some rule
HoldsTag(is, phs) ==
    \E t \in TextsOf([k \in 1..Len(is) |-> is[k].json]), a \in 1..Len(phs) :
        contains(t, phs[a].placeholder)

\* C11: find_match, load_interactions, clear and eject on a cassette whose
\* in-memory interactions hold no placeholder tag leave it holding none, and
\* construction leaves it holding none.
C11_MemoryStaysDeredacted ==
    [][/\ (op' = "__init__" /\ phase' = "ready")
            => ~ HoldsTag(interactions', placeholders')
       /\ (/\ phase = "ready"
           /\ op' \in {"find_match", "load_interactions", "clear", "eject"}
           /\ ~ HoldsTag(interactions, placeholders))
            => ~ HoldsTag(interactions', placeholders')]_vars

\* C12: clear() leaves no in-memory interaction and persists an empty
\* http_interactions list, and a fresh cassette constructed on the store that
\* clear() persisted holds no interaction and reports is_empty() true.
C12_ClearThenFreshIsEmpty ==
    [][/\ op' = "clear"
            => interactions' = <<>> /\ store'.http_interactions = <<>>
       /\ (op = "clear" /\ op' = "__init__" /\ phase' = "ready")
            => interactions' = <<>> /\ is_empty(serialized')]_vars

\* two interaction jsons are the same interaction up to placeholder substitution
SameInteraction(a, b) ==
    a.request.method = b.request.method /\ a.recorded_at = b.recorded_at

\* C13: clear() hands the serializer an empty http_interactions list; eject()
\* hands it the interactions held at that moment, as many and in the same
\* order, and keeps their number and order in memory; neither changes
\* anything else of the cassette.
C13_ClearAndEjectPersist ==
    [][/\ op' \in {"clear", "eject"}
            => UNCHANGED <<serialized, record_mode, match_options, placeholders>>
       /\ op' = "clear"
            => store'.http_interactions = <<>> /\ interactions' = <<>>
       /\ op' = "eject"
            => /\ Len(store'.http_interactions) = Len(interactions)
               /\ Len(interactions') = Len(interactions)
               /\ \A k \in 1..Len(interactions) :
                     /\ SameInteraction(store'.http_interactions[k], interactions[k].json)
                     /\ SameInteraction(interactions'[k].json, interactions[k].json)]_vars

\* ejected after the first loaded interaction was evicted and a capture appended
C13_Witness ==
    /\ op = "eject"
    /\ serialized.http_interactions = <<StoredC, StoredA>>
    /\ Len(store.http_interactions) = 2
    /\ store.http_interactions[1].recorded_at = StoredA.recorded_at
    /\ store.http_interactions[2].recorded_at \notin {StoredA.recorded_at, StoredC.recorded_at}

\* what a construction with an unregistered format leaves: no proxy built,
\* nothing deserialized, no instance state
NothingBuilt ==
    /\ arg.proxy = "unbuilt"
    /\ deserialized = 0
    /\ serialized = None
    /\ interactions = <<>>

\* C14, as claimed: construction fails exactly for a serialization format with
\* no registered serializer, with a ConfigurationError, before the proxy is
\* built and before anything is deserialized.
C14_UnknownFormatConfigurationError ==
    op = "__init__"
        => /\ phase = "failed" <=> arg.format \notin SerializerNames
           /\ phase = "failed" => ret = RetRaise("ConfigurationError") /\ NothingBuilt

\* C14, amended: the same, the error raised being a ValueError.
C14_UnknownFormatValueError ==
    op = "__init__"
        => /\ phase = "failed" <=> arg.format \notin SerializerNames
           /\ phase = "failed" => ret = RetRaise("ValueError") /\ NothingBuilt

\* a construction with the unregistered format 'yaml' on a store holding data
C14_Witness ==
    /\ op = "__init__"
    /\ arg.format = "yaml"
    /\ phase = "failed"
    /\ store.http_interactions # <<>>

\* C15: the match_options of a cassette are always names of registered
\* matchers, and find_match never fails.
C15_MatchOptionsRegistered ==
    phase = "ready"
        => /\ match_options \subseteq MatcherNames
           /\ op = "find_match" => ret.kind # "raise"

\* the operations of a constructed cassette
Operations ==
    { "find_match", "load_interactions", "sanitize_interactions", "clear", "eject",
      "earliest_recorded_date", "is_recording", "serialize_interaction" }

\* C16: no operation of a constructed cassette raises, and
\* serialize_interaction returns a record with request, response and
\* recorded_at fields, leaving the interactions as they were.
C16_OperationsTotal ==
    [][(phase = "ready" /\ op' \in Operations)
            => /\ ret'.kind # "raise"
               /\ op' = "serialize_interaction"
                    => /\ ret' = RetRecord({"request", "response", "recorded_at"})
                       /\ interactions' = interactions]_vars

\* C17, as claimed: with no match option, find_match on a cassette holding
\* interactions returns the first of them, for any request and record mode.
C17_NoOptionsReturnsFirst ==
    [][(/\ phase = "ready"
        /\ op' = "find_match"
        /\ match_options = {}
        /\ interactions # <<>>)
            => ret' = RetInteraction(interactions[1])]_vars

\* C17, amended: with no match option, find_match on a cassette holding
\* interactions returns the first of them for any request outside 'all'
\* mode; in 'all' mode it removes the first of them and returns None.
C17_NoOptionsFirstOrEvicted ==
    [][(/\ phase = "ready"
        /\ op' = "find_match"
        /\ match_options = {}
        /\ interactions # <<>>)
            => IF record_mode = "all"
               THEN ret' = RetNone /\ interactions' = Tail(interactions)
               ELSE ret' = RetInteraction(interactions[1])
                    /\ interactions' = interactions]_vars

\* a request that equals neither stored request, answered by the first interaction
C17_Witness ==
    /\ op = "find_match"
    /\ match_options = {}
    /\ record_mode = "none"
    /\ Len(interactions) = 2
    /\ \A k \in 1..2 : arg.request # interactions[k].json.request
    /\ ret = RetInteraction(interactions[1])

\* the recorded_at values of the in-memory interactions
RecordedAt(is) == { is[k].recorded_at : k \in 1..Len(is) }

\* C18: earliest_recorded_date returns the least recorded_at of the
\* interactions held, the current time when none is held, and leaves the
\* interactions and their order as they were.
C18_EarliestRecordedDate ==
    [][op' = "earliest_recorded_date"
            => /\ interactions' = interactions
               /\ IF interactions = <<>> THEN ret' = RetNow
                  ELSE /\ ret'.kind = "datetime"
                       /\ ret'.value \in RecordedAt(interactions)
                       /\ \A at \in RecordedAt(interactions) : ret'.value <= at]_vars

\* the earliest interaction is not the first one held
C18_Witness ==
    /\ op = "earliest_recorded_date"
    /\ Len(interactions) = 2
    /\ interactions[2].recorded_at < interactions[1].recorded_at
    /\ ret = RetDate(interactions[2].recorded_at)

\* no interaction held matches the request under the registered options opts
NothingMatches(is, opts, r) ==
    IF opts \subseteq MatcherNames THEN Matching(is, opts, r) = {} ELSE TRUE

\* C19: outside 'all' mode, and in 'all' mode when nothing matches,
\* find_match leaves the interactions, record_mode, match_options,
\* placeholders and the cached deserialized store as they were.
C19_FindMatchReadOnly ==
    [][(/\ phase = "ready"
        /\ op' = "find_match"
        /\ \/ record_mode # "all"
           \/ NothingMatches(interactions, match_options, arg'.request))
            => UNCHANGED <<interactions, record_mode, match_options, placeholders,
                           serialized, store>>]_vars

\* a match found in 'once' mode on a cassette holding two interactions
C19_Witness ==
    /\ op = "find_match"
    /\ record_mode = "once"
    /\ ret.kind = "Interaction"
    /\ Len(interactions) = 2
    /\ match_options = {"method", "uri"}

\* C20: the recording flag __init__ hands to the serializer proxy is
\* is_recording() with the cached store still unset: 'recording' in 'once'
\* mode whatever the store holds, and in every mode but 'none'.
C20_ProxyFlagBeforeLoad ==
    (op = "__init__" /\ phase = "ready")
        => /\ arg.proxy = ProxyFlag(is_recording(record_mode, None))
           /\ record_mode = "once" => arg.proxy = "recording"
           /\ arg.proxy = "recording" <=> record_mode # "none"

\* constructed in 'once' mode on a store holding data: the proxy was told
\* 'recording', and is_recording() is now False
C20_Witness ==
    /\ op = "__init__"
    /\ phase = "ready"
    /\ record_mode = "once"
    /\ store.http_interactions # <<>>
    /\ arg.proxy = "recording"
    /\ ~ is_recording(record_mode, serialized)

====
